---------------------------- MODULE Spec2Model ----------------------------
(***************************************************************************)
(* privleapd: one comm session, from the accept in handle_comm_session to  *)
(* close_session, together with the client at the other end of the socket  *)
(* and the child process that run_action spawns.                           *)
(*                                                                         *)
(* The worker thread is a sequential program; pc is its position.  Its     *)
(* blocking calls (get_msg, select, read, wait) are separate steps so that *)
(* the client and the child interleave with it.                            *)
(***************************************************************************)
EXTENDS Integers, Sequences, FiniteSets, TLC

(***************************************************************************)
(* Bounds of the model.                                                    *)
(***************************************************************************)
\* bytes a child writes to one stream at most
MaxOut == 3
\* size of one read request; stands for the 1024 of stdout.read(1024)
ReadSize == 2
\* capacity of a kernel pipe: a child that writes to a full pipe blocks
PipeCap == 2

\* size of the buffer of the BufferedReader that Popen puts on each pipe
\* (io.DEFAULT_BUFFER_SIZE, several read requests)
BufSize == 2 * ReadSize

(***************************************************************************)
(* Program constants.                                                      *)
(***************************************************************************)
\* Popen.terminate() sends SIGTERM; a child killed by signal n has
\* returncode -n
SIGTERM == 15
\* a write to a pipe whose read end was closed raises SIGPIPE in the child
SIGPIPE == 13
\* exit statuses a child ends with on its own ("exit 240" in the test
\* configuration, 0 for the other actions)
ExitCodes == {0, 240}

None == "-none-"
NoMsg == [type |-> None, signal_name |-> None]
Streams == {"out", "err"}

(***************************************************************************)
(* The host's user database (pwd / grp) as the test suite sets it up.      *)
(***************************************************************************)
Users == {"privleaptest", "sys"}

\* os.getgrouplist(user, pw_gid) mapped through grp.getgrgid(..).gr_name
group_list(user) ==
    IF user = "privleaptest" THEN {"privleaptest", "sudo"}
    ELSE IF user = "sys" THEN {"sys"}
    ELSE {}

(***************************************************************************)
(* PrivleapdGlobal.action_list, as parse_config_files leaves it for the    *)
(* test configuration (the actions with at most one user and one group).   *)
(***************************************************************************)
Action(name, user, group) ==
    [action_name |-> name, auth_user |-> user, auth_group |-> group]

action_list ==
    << Action("test-act-free", None, None),
       Action("test-act-userrestrict", "sys", None),
       Action("test-act-grouprestrict", None, "sys"),
       Action("test-act-grouppermit-userrestrict", "sys", "privleaptest"),
       Action("test-act-grouprestrict-userpermit", "privleaptest", "sys"),
       Action("test-act-grouppermit-userpermit", "privleaptest", "privleaptest") >>

NoAction == Action(None, None, None)

ActionNames == {action_list[i].action_name : i \in 1..Len(action_list)}

\* what a client may put in SIGNAL: the name of an action, or another name
SignalNames == ActionNames \cup {"nonexistent"}

\* first message a client may send on a comm socket
ClientMsgs ==
    [type : {"SIGNAL"}, signal_name : SignalNames]
        \cup {[type |-> "TRIGGER", signal_name |-> None],
              [type |-> "BOB", signal_name |-> None]}

VARIABLES
    sockUser,    \* comm_socket.user_name: the user the endpoint was created for
    pc,          \* position of the worker thread in handle_comm_session
    sessUser,    \* comm_session.user_name, None while there is no session
    sessOpen,    \* "none", "open" or "closed"
    closes,      \* number of close_session calls
    inbox,       \* the client's message, NoMsg until it is sent
    clientGone,  \* the client closed its end of the connection
    frames,      \* every send_msg_safe call: [name, payload, ok]
    desired,     \* desired_action, NoAction when not (yet) found
    authUser,    \* the user name authenticate_user compared, None before
    granted,     \* result of authenticate_user: None before, "True", "False"
    child,       \* action_process: [state, status, cause, sigterm]
    returncode,  \* action_process.returncode: << >> until waited on, then <<n>>
    pipe,        \* per stream: bytes in the kernel pipe
    rbuf,        \* per stream: bytes in the reader's buffer
    wclosed,     \* per stream: the child closed its (write) end
    rclosed,     \* per stream: the daemon closed its (read) end
    wrote,       \* per stream: every byte the child wrote, in order
    consumed,    \* per stream: number of bytes the worker took off the pipe
    done,        \* stdout_done / stderr_done
    ready,       \* ready_streams[0] of the last select
    unwinding,   \* send_action_results is returning early through finally
    script       \* what the command of the action still has to write, as far
                 \* as it is known: the streams of its next bytes, in order

vars == << sockUser, pc, sessUser, sessOpen, closes, inbox, clientGone, frames,
           desired, authUser, granted, child, returncode, pipe, rbuf, wclosed,
           rclosed, wrote, consumed, done, ready, unwinding, script >>

sessVars == << sessUser, sessOpen, closes >>
authVars == << desired, authUser, granted >>
procVars == << child, returncode >>
pipeVars == << pipe, rbuf, wclosed, rclosed, wrote, consumed >>
loopVars == << done, ready, unwinding >>
clientVars == << inbox, clientGone >>

(***************************************************************************)
(* The daemon around the sessions: PrivleapdGlobal.socket_list, the comm    *)
(* directory, the supervisor thread in main_loop and the worker threads it *)
(* starts.                                                                 *)
(***************************************************************************)
\* control connections made to the daemon at most
MaxCtl == 2
\* comm connections made to the daemon at most
MaxConn == 1
\* worker threads the supervisor starts at most
MaxThreads == 2

\* user names a control client may name: the users of the host and one
\* that pwd does not know
CtlUsers == Users \cup {"nonexistent"}

VARIABLES
    socket_list, \* PrivleapdGlobal.socket_list: [socket_type, user_name, id]
    nodes,       \* per user: the node at <comm_dir>/<user>: "none", "live"
                 \* (bound by the socket last created for the user), "stale"
    ctlQueue,    \* connections waiting on the control socket: [msg, user]
    pending,     \* per comm socket id: connections waiting to be accepted
    mpc,         \* position of the supervisor thread
    readyList,   \* ready_socket_list[0], what is left of it in this pass
    ctlConn,     \* the control session being handled
    ctlOpen,     \* number of control sessions that are open
    lastReq,     \* the control request handled last: [type, user, reply, unlink, sent]
    okCreated,   \* per user: a CREATE was answered OK and no DESTROY came since
    workers,     \* per worker thread: [state, sock]
    conns,       \* number of comm connections made so far
    ctlConns     \* number of control connections made so far

daemonVars == << socket_list, nodes, ctlQueue, pending, mpc, readyList,
                 ctlConn, ctlOpen, lastReq, okCreated, workers, conns,
                 ctlConns >>

\* PrivleapSocket(PrivleapSocketType.CONTROL): no user name
ControlSocket == [socket_type |-> "CONTROL", user_name |-> None, id |-> 0]

NoConn == [msg |-> None, user |-> None]
NoReq == [type |-> None, user |-> None, reply |-> None, unlink |-> None,
          sent |-> FALSE]
NoWorker == [state |-> "unborn", sock |-> 0, user |-> None]

\* the daemon when main_loop is entered: open_control_socket has run
DaemonInit ==
    /\ socket_list = << ControlSocket >>
    /\ nodes = [u \in CtlUsers |-> "none"]
    /\ ctlQueue = << >>
    /\ pending = << >>
    /\ mpc = "select"
    /\ readyList = << >>
    /\ ctlConn = NoConn
    /\ ctlOpen = 0
    /\ lastReq = NoReq
    /\ okCreated = [u \in CtlUsers |-> FALSE]
    /\ workers = [w \in 1..MaxThreads |-> NoWorker]
    /\ conns = 0
    /\ ctlConns = 0

(***************************************************************************)
(* Startup: main() up to main_loop, with the host as it finds it.          *)
(***************************************************************************)
\* entries of the configuration directory at most
MaxFiles == 2

VARIABLES
    spc,         \* position in main: index of the next call, 0 after sys.exit
    exit_status, \* << >> while the process runs, << n >> after sys.exit(n)
    euid,        \* os.geteuid()
    state_dir,   \* pl.PrivleapCommon.state_dir: "absent", "old" (left by an
                 \* earlier instance, with its comm directory), "new"
    pid_file,    \* content of <state_dir>/pid, None when there is no file
    config_dir,  \* the entries of /etc/privleap/conf.d, in iterdir order
    loaded,      \* PrivleapdGlobal.action_list: the names of the actions in it
    steps        \* the functions main has called so far

startVars == << spc, exit_status, euid, state_dir, pid_file, config_dir,
               loaded, steps >>

\* a main that looks at the PID file before it looks at the user it runs as
main_pid_check_first ==
    << "verify_not_running_twice", "ensure_running_as_root",
       "cleanup_old_state_dir", "parse_config_files",
       "populate_state_dir", "open_control_socket", "main_loop" >>

\* the calls of main, in order
main == << "ensure_running_as_root", "verify_not_running_twice",
           "cleanup_old_state_dir", "parse_config_files",
           "populate_state_dir", "open_control_socket", "main_loop" >>

\* PID file contents: a number that is the PID of a running process, of no
\* process, zero, a number beyond the range of a PID, and no number
OwnPid == "4244"
LivePids == {"4242", OwnPid}
Decimal == {"4242", "4243", "0", "2147483648"}
PidFiles == Decimal \cup {"garbage"}

\* entries of the configuration directory: a configuration file with its
\* action sections and the users of its persistent-users sections, a file
\* that does not parse, and an entry that is skipped (no regular file, or
\* a name that is no valid configuration file name)
ConfigEntries ==
    [kind : {"conf"},
     actions : {<< "test-act-free" >>, << "test-act-userrestrict" >>,
                << "test-act-free", "test-act-userrestrict" >>},
     users : {{}, {"sys"}}]
       \cup {[kind |-> "malformed", actions |-> << >>, users |-> {}],
             [kind |-> "skipped", actions |-> << >>, users |-> {}]}

ConfigDirs == UNION {[1..n -> ConfigEntries] : n \in 0..MaxFiles}

\* the test configuration, and what a successful startup leaves behind
TestConfig == [kind |-> "conf",
               actions |-> [i \in 1..Len(action_list) |->
                               action_list[i].action_name],
               users |-> {"sys"}]

StartedUp ==
    /\ spc = Len(main)
    /\ exit_status = << >>
    /\ euid = 0
    /\ state_dir = "new"
    /\ pid_file = OwnPid
    /\ config_dir = << TestConfig >>
    /\ loaded = TestConfig.actions
    /\ steps = SubSeq(main, 1, Len(main) - 1)

NoChild == [state |-> "none", status |-> 0, cause |-> None, sigterm |-> FALSE]

Init ==
    /\ sockUser \in Users
    /\ pc = "accept"
    /\ sessUser = None
    /\ sessOpen = "none"
    /\ closes = 0
    /\ inbox = NoMsg
    /\ clientGone = FALSE
    /\ frames = << >>
    /\ desired = NoAction
    /\ authUser = None
    /\ granted = None
    /\ child = NoChild
    /\ returncode = << >>
    /\ pipe = [s \in Streams |-> << >>]
    /\ rbuf = [s \in Streams |-> << >>]
    /\ wclosed = [s \in Streams |-> FALSE]
    /\ rclosed = [s \in Streams |-> FALSE]
    /\ wrote = [s \in Streams |-> << >>]
    /\ consumed = [s \in Streams |-> 0]
    /\ done = [s \in Streams |-> FALSE]
    /\ ready = {}
    /\ unwinding = FALSE
    /\ script = << >>
    /\ DaemonInit
    /\ StartedUp

Min(a, b) == IF a < b THEN a ELSE b

ToStr(b) == IF b THEN "True" ELSE "False"

(***************************************************************************)
(* The client.                                                             *)
(***************************************************************************)
ClientSend(m) ==
    /\ inbox = NoMsg
    /\ ~clientGone
    /\ inbox' = m
    /\ UNCHANGED << startVars, daemonVars, script, sockUser, pc, sessVars, clientGone, frames, authVars,
                    procVars, pipeVars, loopVars >>

ClientDisconnect ==
    /\ ~clientGone
    /\ clientGone' = TRUE
    /\ UNCHANGED << startVars, daemonVars, script, sockUser, pc, sessVars, inbox, frames, authVars,
                    procVars, pipeVars, loopVars >>

(***************************************************************************)
(* send_msg_safe: the frame is delivered unless the client has closed the  *)
(* connection; the exception of a failed send is caught and False returned.*)
(***************************************************************************)
Msg(name, payload) == [name |-> name, payload |-> payload]

send_msg_ok == ~clientGone

send_msg_safe(msg) ==
    frames' = Append(frames, [name |-> msg.name, payload |-> msg.payload,
                              ok |-> send_msg_ok])

(***************************************************************************)
(* handle_comm_session, up to the spawn.                                   *)
(***************************************************************************)
\* comm_socket.get_session(): accept; the session carries the name the
\* endpoint was created for
get_session_user(sock_user) == sock_user

Accept ==
    /\ pc = "accept"
    /\ \/ /\ sessUser' = get_session_user(sockUser)
          /\ sessOpen' = "open"
          /\ pc' = "get_signal"
       \/ \* get_session raised: logged, the handler returns
          /\ pc' = "done"
          /\ UNCHANGED << sessUser, sessOpen >>
    /\ UNCHANGED << startVars, daemonVars, script, sockUser, closes, clientVars, frames, authVars, procVars,
                    pipeVars, loopVars >>

\* get_signal_msg: None when get_msg raises or the message is no SIGNAL
get_signal_msg(msg) ==
    IF msg = NoMsg THEN NoMsg                  \* connection closed: get_msg raised
    ELSE IF msg.type = "BOB" THEN NoMsg        \* invalid message type: get_msg raised
    ELSE IF msg.type # "SIGNAL" THEN NoMsg     \* not a SIGNAL
    ELSE msg

\* a handler that tells the client its first message was refused
GetSignalReplies ==
    /\ pc = "get_signal"
    /\ inbox # NoMsg \/ clientGone
    /\ pc' = IF get_signal_msg(inbox) = NoMsg THEN "close" ELSE "lookup"
    /\ IF get_signal_msg(inbox) = NoMsg
          THEN send_msg_safe(Msg("UNAUTHORIZED", << >>))
          ELSE UNCHANGED frames
    /\ UNCHANGED << startVars, daemonVars, script, sockUser, sessVars, clientVars, authVars, procVars,
                    pipeVars, loopVars >>

GetSignal ==
    /\ pc = "get_signal"
    /\ inbox # NoMsg \/ clientGone
    /\ pc' = IF get_signal_msg(inbox) = NoMsg THEN "close" ELSE "lookup"
    /\ UNCHANGED << startVars, daemonVars, script, sockUser, sessVars, clientVars, frames, authVars, procVars,
                    pipeVars, loopVars >>

\* the for loop of lookup_desired_action: the first action of that name
RECURSIVE find_action(_, _)
find_action(action_name, i) ==
    IF i > Len(action_list) THEN NoAction
    ELSE IF action_list[i].action_name = action_name THEN action_list[i]
    ELSE find_action(action_name, i + 1)

\* a lookup that closes the session without a reply when the name is unknown
LookupNoReply ==
    /\ pc = "lookup"
    /\ LET action == find_action(inbox.signal_name, 1) IN
         /\ desired' = action
         /\ IF action = NoAction
               THEN /\ UNCHANGED frames
                    /\ pc' = "close"
               ELSE /\ UNCHANGED frames
                    /\ pc' = "auth"
    /\ UNCHANGED << startVars, daemonVars, script, sockUser, sessVars, clientVars, authUser, granted,
                    procVars, pipeVars, loopVars >>

LookupDesiredAction ==
    /\ pc = "lookup"
    /\ LET action == find_action(inbox.signal_name, 1) IN
         /\ desired' = action
         /\ IF action = NoAction
               THEN /\ send_msg_safe(Msg("UNAUTHORIZED", << >>))
                    /\ pc' = "close"
               ELSE /\ UNCHANGED frames
                    /\ pc' = "auth"
    /\ UNCHANGED << startVars, daemonVars, script, sockUser, sessVars, clientVars, authUser, granted,
                    procVars, pipeVars, loopVars >>

\* authenticate_user: the two checks, in the order of the code
authenticate_user(action, user_name) ==
    IF action.auth_user # None /\ action.auth_user # user_name
       THEN FALSE
    ELSE IF action.auth_group # None
            /\ ~(\E group \in group_list(user_name) : group = action.auth_group)
       THEN FALSE
    ELSE TRUE

\* the user name the check is made for
\* a check made for a name taken from the SIGNAL message
auth_subject_from_signal == inbox.signal_name

auth_subject == sessUser

\* a denial that replies UNAUTHORIZED but does not return
AuthenticateFallThrough ==
    /\ pc = "auth"
    /\ authUser' = auth_subject
    /\ granted' = ToStr(authenticate_user(desired, auth_subject))
    /\ IF authenticate_user(desired, auth_subject)
          THEN UNCHANGED frames
          ELSE send_msg_safe(Msg("UNAUTHORIZED", << >>))
    /\ pc' = "run"
    /\ UNCHANGED << startVars, daemonVars, script, sockUser, sessVars, clientVars, desired, procVars,
                    pipeVars, loopVars >>

Authenticate ==
    /\ pc = "auth"
    /\ authUser' = auth_subject
    /\ granted' = ToStr(authenticate_user(desired, auth_subject))
    /\ IF authenticate_user(desired, auth_subject)
          THEN /\ UNCHANGED frames
               /\ pc' = "run"
          ELSE /\ send_msg_safe(Msg("UNAUTHORIZED", << >>))
               /\ pc' = "close"
    /\ UNCHANGED << startVars, daemonVars, script, sockUser, sessVars, clientVars, desired, procVars,
                    pipeVars, loopVars >>

\* a failed spawn that reports TRIGGER_ERROR and carries on to the TRIGGER
RunActionErrorThenTrigger ==
    /\ pc = "run"
    /\ \/ /\ child' = [state |-> "running", status |-> 0, cause |-> None,
                       sigterm |-> FALSE]
          /\ UNCHANGED frames
       \/ /\ send_msg_safe(Msg("TRIGGER_ERROR", << >>))
          /\ UNCHANGED child
    /\ pc' = "trigger"
    /\ UNCHANGED << startVars, daemonVars, script, sockUser, sessVars, clientVars, authVars, returncode,
                    pipeVars, loopVars >>

\* run_action, and the except branch around it
RunAction ==
    /\ pc = "run"
    /\ \/ /\ child' = [state |-> "running", status |-> 0, cause |-> None,
                       sigterm |-> FALSE]
          /\ UNCHANGED frames
          /\ pc' = "trigger"
       \/ \* pwd.getpwnam or Popen raised
          /\ send_msg_safe(Msg("TRIGGER_ERROR", << >>))
          /\ pc' = "close"
          /\ UNCHANGED child
    /\ UNCHANGED << startVars, daemonVars, script, sockUser, sessVars, clientVars, authVars, returncode,
                    pipeVars, loopVars >>

\* a failed TRIGGER send that goes through the cleanup of the child
SendTriggerThenCleanup ==
    /\ pc = "trigger"
    /\ send_msg_safe(Msg("TRIGGER", << >>))
    /\ pc' = IF send_msg_ok THEN "select" ELSE "finally"
    /\ unwinding' = ~send_msg_ok
    /\ UNCHANGED << startVars, daemonVars, script, sockUser, sessVars, clientVars, authVars, procVars,
                    pipeVars, done, ready >>

\* the TRIGGER reply; when it cannot be sent the handler returns at once
SendTrigger ==
    /\ pc = "trigger"
    /\ send_msg_safe(Msg("TRIGGER", << >>))
    /\ pc' = IF send_msg_ok THEN "select" ELSE "close"
    /\ UNCHANGED << startVars, daemonVars, script, sockUser, sessVars, clientVars, authVars, procVars,
                    pipeVars, loopVars >>

(***************************************************************************)
(* The child process: bash -c <command>, with stdout and stderr as pipes.  *)
(* It writes bytes to either stream while the pipe has room, may close a   *)
(* stream early, and ends with an exit status; SIGTERM and SIGPIPE end it  *)
(* with the negated signal number.                                         *)
(***************************************************************************)
\* the k-th byte a child writes to a stream: all different, so that a lost,
\* doubled or swapped byte shows
Byte(s, k) == IF s = "out" THEN k ELSE 128 + k

AllClosed == [s \in Streams |-> TRUE]

ChildWrite(s) ==
    /\ child.state = "running"
    /\ ~wclosed[s]
    /\ ~rclosed[s]
    /\ Len(wrote[s]) < MaxOut
    /\ Len(pipe[s]) < PipeCap
    /\ pipe' = [pipe EXCEPT ![s] = Append(@, Byte(s, Len(wrote[s]) + 1))]
    /\ wrote' = [wrote EXCEPT ![s] = Append(@, Byte(s, Len(wrote[s]) + 1))]
    /\ UNCHANGED << startVars, daemonVars, script, sockUser, pc, sessVars, clientVars, frames, authVars,
                    procVars, rbuf, wclosed, rclosed, consumed, loopVars >>

ChildClose(s) ==
    /\ child.state = "running"
    /\ ~wclosed[s]
    /\ wclosed' = [wclosed EXCEPT ![s] = TRUE]
    /\ UNCHANGED << startVars, daemonVars, script, sockUser, pc, sessVars, clientVars, frames, authVars,
                    procVars, pipe, rbuf, rclosed, wrote, consumed, loopVars >>

ChildEnds(status, cause) ==
    /\ child' = [child EXCEPT !.state = "exited", !.status = status,
                              !.cause = cause]
    /\ wclosed' = AllClosed
    /\ UNCHANGED << startVars, daemonVars, script, sockUser, pc, sessVars, clientVars, frames, authVars,
                    returncode, pipe, rbuf, rclosed, wrote, consumed, loopVars >>

ChildExit(code) ==
    /\ child.state = "running"
    /\ ChildEnds(code, "self")

ChildKilled ==
    /\ child.state = "running"
    /\ child.sigterm
    /\ ChildEnds(-SIGTERM, "sigterm")

ChildSigpipe(s) ==
    /\ child.state = "running"
    /\ ~wclosed[s]
    /\ rclosed[s]
    /\ Len(wrote[s]) < MaxOut
    /\ ChildEnds(-SIGPIPE, "sigpipe")

(***************************************************************************)
(* send_action_results.                                                    *)
(***************************************************************************)
\* select.select([stdout, stderr], [], []): a pipe is readable when it holds
\* bytes or its write end is closed; the reader's own buffer does not count
Readable(s) == pipe[s] # << >> \/ wclosed[s]

\* the while condition
LoopHead(d) == IF d["out"] /\ d["err"] THEN "wait" ELSE "select"

AfterRead(s, d) ==
    IF s = "out" /\ "err" \in ready THEN "read_err" ELSE LoopHead(d)

Select ==
    /\ pc = "select"
    /\ \E s \in Streams : Readable(s)
    /\ ready' = {s \in Streams : Readable(s)}
    /\ pc' = IF Readable("out") THEN "read_out" ELSE "read_err"
    /\ UNCHANGED << startVars, daemonVars, script, sockUser, sessVars, clientVars, frames, authVars, procVars,
                    pipeVars, done, unwinding >>

\* read(1024) on the BufferedReader: raw reads fill the buffer until it
\* holds the bytes asked for, or the pipe is at EOF
ReadFill(s) ==
    /\ pc = "read_" \o s
    /\ Len(rbuf[s]) < ReadSize
    /\ pipe[s] # << >>
    /\ LET k == Min(Len(pipe[s]), BufSize - Len(rbuf[s])) IN
         /\ rbuf' = [rbuf EXCEPT ![s] = @ \o SubSeq(pipe[s], 1, k)]
         /\ pipe' = [pipe EXCEPT ![s] = SubSeq(@, k + 1, Len(@))]
         /\ consumed' = [consumed EXCEPT ![s] = @ + k]
    /\ UNCHANGED << startVars, daemonVars, script, sockUser, pc, sessVars, clientVars, frames, authVars,
                    procVars, wclosed, rclosed, wrote, loopVars >>

\* the bytes a read returns, and what stays in the buffer
\* a read that drops what the buffer holds beyond the bytes asked for
ReadTakeLossy(buf) == [data |-> SubSeq(buf, 1, Min(ReadSize, Len(buf))),
                       rest |-> << >>]

\* a read without a size: everything the buffer holds
ReadTakeAll(buf) == [data |-> buf, rest |-> << >>]

ReadTake(buf) == [data |-> SubSeq(buf, 1, Min(ReadSize, Len(buf))),
                  rest |-> SubSeq(buf, Min(ReadSize, Len(buf)) + 1, Len(buf))]

ResultName(s) == IF s = "out" THEN "RESULT_STDOUT" ELSE "RESULT_STDERR"

\* a loop that does not look at what send_msg_safe returned
ReadReturnIgnoresSendResult(s) ==
    /\ pc = "read_" \o s
    /\ Len(rbuf[s]) >= ReadSize \/ (pipe[s] = << >> /\ wclosed[s])
    /\ LET stdio_buf == ReadTake(rbuf[s]).data IN
         /\ rbuf' = [rbuf EXCEPT ![s] = ReadTake(rbuf[s]).rest]
         /\ IF stdio_buf = << >>
               THEN /\ done' = [done EXCEPT ![s] = TRUE]
                    /\ UNCHANGED frames
               ELSE /\ send_msg_safe(Msg(ResultName(s), stdio_buf))
                    /\ UNCHANGED done
         /\ pc' = AfterRead(s, done')
    /\ UNCHANGED << startVars, daemonVars, script, sockUser, sessVars, clientVars, authVars, procVars, pipe,
                    wclosed, rclosed, wrote, consumed, ready, unwinding >>

\* the read returns; b"" marks the stream done, anything else is sent, and
\* a failed send returns from the function through finally
ReadReturn(s) ==
    /\ pc = "read_" \o s
    /\ Len(rbuf[s]) >= ReadSize \/ (pipe[s] = << >> /\ wclosed[s])
    /\ LET stdio_buf == ReadTake(rbuf[s]).data IN
         /\ rbuf' = [rbuf EXCEPT ![s] = ReadTake(rbuf[s]).rest]
         /\ IF stdio_buf = << >>
               THEN /\ done' = [done EXCEPT ![s] = TRUE]
                    /\ UNCHANGED << frames, unwinding >>
                    /\ pc' = AfterRead(s, done')
               ELSE /\ send_msg_safe(Msg(ResultName(s), stdio_buf))
                    /\ UNCHANGED done
                    /\ IF send_msg_ok
                          THEN /\ pc' = AfterRead(s, done)
                               /\ UNCHANGED unwinding
                          ELSE /\ pc' = "finally"
                               /\ unwinding' = TRUE
    /\ UNCHANGED << startVars, daemonVars, script, sockUser, sessVars, clientVars, authVars, procVars, pipe,
                    wclosed, rclosed, wrote, consumed, ready >>

\* action_process.wait() after the loop
\* the loop left without waiting for the child
WaitChildSkipped ==
    /\ pc = "wait"
    /\ pc' = "finally"
    /\ UNCHANGED << startVars, daemonVars, script, sockUser, sessVars, clientVars, frames, authVars, procVars,
                    pipeVars, loopVars >>

WaitChild ==
    /\ pc = "wait"
    /\ child.state = "exited"
    /\ child' = [child EXCEPT !.state = "reaped"]
    /\ returncode' = << child.status >>
    /\ pc' = "finally"
    /\ UNCHANGED << startVars, daemonVars, script, sockUser, sessVars, clientVars, frames, authVars,
                    pipeVars, loopVars >>

\* Popen.terminate(): nothing once the child was waited on; poll() reaps a
\* child that has exited; a running child is sent SIGTERM
\* a cleanup that sends no signal
terminateNothing(proc) ==
    IF proc.state = "exited" THEN [proc EXCEPT !.state = "reaped"] ELSE proc

terminate(proc) ==
    IF proc.state = "running" THEN [proc EXCEPT !.sigterm = TRUE]
    ELSE IF proc.state = "exited" THEN [proc EXCEPT !.state = "reaped"]
    ELSE proc

\* the finally block up to terminate(): both pipes are closed, what they
\* and the reader's buffers still hold is dropped
\* a cleanup that leaves the pipes open
FinallyNoClose ==
    /\ pc = "finally"
    /\ child' = terminate(child)
    /\ returncode' = IF child.state = "exited" THEN << child.status >>
                                                  ELSE returncode
    /\ pc' = "fin_wait"
    /\ UNCHANGED << startVars, daemonVars, script, sockUser, sessVars, clientVars, frames, authVars,
                    pipeVars, loopVars >>

Finally ==
    /\ pc = "finally"
    /\ rclosed' = AllClosed
    /\ rbuf' = [s \in Streams |-> << >>]
    /\ pipe' = [s \in Streams |-> << >>]
    /\ child' = terminate(child)
    /\ returncode' = IF child.state = "exited" THEN << child.status >>
                                                  ELSE returncode
    /\ pc' = "fin_wait"
    /\ UNCHANGED << startVars, daemonVars, script, sockUser, sessVars, clientVars, frames, authVars,
                    wclosed, wrote, consumed, loopVars >>

\* the wait() of the finally block, then either the return that brought
\* the worker here goes on, or the exit code is sent
\* a cleanup after which the exit code is sent on the early return as well
FinallyWaitThenExitcode ==
    /\ pc = "fin_wait"
    /\ child.state \in {"exited", "reaped"}
    /\ child' = [child EXCEPT !.state = "reaped"]
    /\ returncode' = IF child.state = "exited" THEN << child.status >>
                                                  ELSE returncode
    /\ pc' = "exitcode"
    /\ UNCHANGED << startVars, daemonVars, script, sockUser, sessVars, clientVars, frames, authVars,
                    pipeVars, loopVars >>

FinallyWait ==
    /\ pc = "fin_wait"
    /\ child.state \in {"exited", "reaped"}
    /\ child' = [child EXCEPT !.state = "reaped"]
    /\ returncode' = IF child.state = "exited" THEN << child.status >>
                                                  ELSE returncode
    /\ pc' = IF unwinding THEN "close" ELSE "exitcode"
    /\ UNCHANGED << startVars, daemonVars, script, sockUser, sessVars, clientVars, frames, authVars,
                    pipeVars, loopVars >>

SendExitcode ==
    /\ pc = "exitcode"
    /\ send_msg_safe(Msg("RESULT_EXITCODE", returncode))
    /\ pc' = "close"
    /\ UNCHANGED << startVars, daemonVars, script, sockUser, sessVars, clientVars, authVars, procVars,
                    pipeVars, loopVars >>

\* a handler that leaves the session as it is once a send to it has failed
CloseSessionUnlessSendFailed ==
    /\ pc = "close"
    /\ LET failed == \E i \in 1..Len(frames) : ~frames[i].ok IN
         /\ sessOpen' = IF failed THEN sessOpen ELSE "closed"
         /\ closes' = IF failed THEN closes ELSE closes + 1
    /\ pc' = "done"
    /\ UNCHANGED << startVars, daemonVars, script, sockUser, sessUser, clientVars, frames, authVars, procVars,
                    pipeVars, loopVars >>

\* the finally of handle_comm_session
CloseSession ==
    /\ pc = "close"
    /\ sessOpen' = "closed"
    /\ closes' = closes + 1
    /\ pc' = "done"
    /\ UNCHANGED << startVars, daemonVars, script, sockUser, sessUser, clientVars, frames, authVars, procVars,
                    pipeVars, loopVars >>

Next ==
    \/ \E m \in ClientMsgs : ClientSend(m)
    \/ ClientDisconnect
    \/ Accept
    \/ GetSignal
    \/ LookupDesiredAction
    \/ Authenticate
    \/ RunAction
    \/ SendTrigger
    \/ Select
    \/ \E s \in Streams : ReadFill(s)
    \/ \E s \in Streams : ReadReturn(s)
    \/ WaitChild
    \/ Finally
    \/ FinallyWait
    \/ SendExitcode
    \/ CloseSession
    \/ \E s \in Streams : ChildWrite(s)
    \/ \E s \in Streams : ChildClose(s)
    \/ \E code \in ExitCodes : ChildExit(code)
    \/ ChildKilled
    \/ \E s \in Streams : ChildSigpipe(s)

allVars == << vars, daemonVars, startVars >>

Spec == Init /\ [][Next]_allVars

TypeOK ==
    /\ sockUser \in Users
    /\ sessOpen \in {"none", "open", "closed"}
    /\ granted \in {None, "True", "False"}
    /\ child.state \in {"none", "running", "exited", "reaped"}
    /\ \A s \in Streams : Len(pipe[s]) <= PipeCap /\ Len(rbuf[s]) <= BufSize

(***************************************************************************)
(* What the claims speak of.                                               *)
(***************************************************************************)
FrameIdx(name) == {i \in 1..Len(frames) : frames[i].name = name}
Sent(name) == FrameIdx(name) # {}
Delivered(name) == \E i \in FrameIdx(name) : frames[i].ok
SendFailed(name) == \E i \in FrameIdx(name) : ~frames[i].ok
ResultSendFailed == SendFailed("RESULT_STDOUT") \/ SendFailed("RESULT_STDERR")
Spawned == child.state # "none"

RECURSIVE PayloadsFrom(_, _)
PayloadsFrom(name, i) ==
    IF i > Len(frames) THEN << >>
    ELSE IF frames[i].name = name /\ frames[i].ok
            THEN frames[i].payload \o PayloadsFrom(name, i + 1)
            ELSE PayloadsFrom(name, i + 1)

\* the payloads of the delivered frames of that name, joined in send order
Payloads(name) == PayloadsFrom(name, 1)

IsPrefix(a, b) == Len(a) <= Len(b) /\ a = SubSeq(b, 1, Len(a))

\* the worker has seen the end of the stream and everything written to it
AtEOF(s) == done[s] /\ wclosed[s] /\ consumed[s] = Len(wrote[s])

\* the rule of the specification: no restriction, or the user matches, or
\* one of the user's groups matches
RuleGrants(action, user) ==
    \/ action.auth_user = None /\ action.auth_group = None
    \/ action.auth_user = user
    \/ action.auth_group \in group_list(user)

\* C1: the authorization check grants access if and only if the action has
\* no user and no group restriction, or the user matches, or one of the
\* user's groups matches (a match of either restriction suffices).
C1_AuthorizationIsDisjunction ==
    granted # None => (granted = "True" <=> RuleGrants(desired, sessUser))

\* C2: a child is spawned only for a SIGNAL that names an action of the
\* table and for which the authorization check granted access; on a session
\* where UNAUTHORIZED was sent there is no child, at any time.
C2_SpawnOnlyIfAuthorized ==
    /\ Spawned => /\ inbox.type = "SIGNAL"
                  /\ inbox.signal_name \in ActionNames
                  /\ desired.action_name = inbox.signal_name
                  /\ granted = "True"
    /\ Sent("UNAUTHORIZED") => ~Spawned

C2_Witness ==
    /\ pc = "done"
    /\ Delivered("UNAUTHORIZED")
    /\ desired # NoAction
    /\ granted = "False"

UnknownAction == inbox.type = "SIGNAL" /\ inbox.signal_name \notin ActionNames
Denied == granted = "False"
Replied == sessOpen # "none" /\ pc \in {"close", "done"}

\* C3: a SIGNAL for a name that is not in the action table and a SIGNAL for
\* an action the user is denied get the same replies: one UNAUTHORIZED and
\* nothing else, then the session is closed.
C3_UnknownLooksLikeDenied ==
    (Replied /\ (UnknownAction \/ Denied)) =>
        /\ Len(frames) = 1
        /\ frames[1].name = "UNAUTHORIZED"
        /\ frames[1].payload = << >>
        /\ frames[1].ok \/ clientGone
        /\ ~Spawned
        /\ pc = "done" => sessOpen = "closed"

C3_Witness ==
    /\ pc = "done"
    /\ UnknownAction
    /\ Delivered("UNAUTHORIZED")

\* C4: the user name the authorization check compares is the user name of
\* the endpoint the session was accepted on, whatever the SIGNAL says.
C4_AuthUserIsEndpointUser ==
    authUser # None => /\ authUser = sockUser
                       /\ authUser # inbox.signal_name

C4_Witness ==
    /\ granted = "True"
    /\ authUser = "privleaptest"
    /\ desired.auth_user = "privleaptest"
    /\ Spawned

\* C5: TRIGGER is delivered before any RESULT_STDOUT or RESULT_STDERR frame
\* is sent; RESULT_EXITCODE is sent at most once, as the last frame, and
\* only when both streams are at EOF and the child has been waited on.
C5_FrameOrder ==
    /\ \A i \in FrameIdx("RESULT_STDOUT") \cup FrameIdx("RESULT_STDERR") :
          \E j \in FrameIdx("TRIGGER") : j < i /\ frames[j].ok
    /\ Cardinality(FrameIdx("RESULT_EXITCODE")) <= 1
    /\ \A i \in FrameIdx("RESULT_EXITCODE") :
          /\ i = Len(frames)
          /\ AtEOF("out") /\ AtEOF("err")
          /\ child.state = "reaped"
          /\ returncode # << >>

C5_Witness ==
    /\ Delivered("RESULT_EXITCODE")
    /\ Delivered("RESULT_STDOUT")
    /\ Delivered("RESULT_STDERR")
    /\ pc = "done"

\* C6: the RESULT_STDOUT payloads, joined in send order, are at any time
\* the first bytes the child wrote to stdout, and all of them once
\* RESULT_EXITCODE has reached the client; the same for RESULT_STDERR and
\* stderr.
C6_NoByteLostOrReordered ==
    /\ IsPrefix(Payloads("RESULT_STDOUT"), wrote["out"])
    /\ IsPrefix(Payloads("RESULT_STDERR"), wrote["err"])
    /\ Delivered("RESULT_EXITCODE") =>
          /\ Payloads("RESULT_STDOUT") = wrote["out"]
          /\ Payloads("RESULT_STDERR") = wrote["err"]

C6_Witness ==
    /\ Delivered("RESULT_EXITCODE")
    /\ Len(wrote["out"]) = MaxOut
    /\ Len(wrote["err"]) = MaxOut
    /\ Cardinality(FrameIdx("RESULT_STDOUT")) >= 2
    /\ Cardinality(FrameIdx("RESULT_STDERR")) >= 2
    /\ frames[2].name = "RESULT_STDERR"

\* C7: the number in RESULT_EXITCODE is the status the child ended with on
\* its own; the child was not signalled by the daemon.
C7_ExitcodeIsChildStatus ==
    \A i \in FrameIdx("RESULT_EXITCODE") :
        /\ child.cause = "self"
        /\ ~child.sigterm
        /\ frames[i].payload = << child.status >>

C7_Witness ==
    \E i \in FrameIdx("RESULT_EXITCODE") :
        frames[i].ok /\ frames[i].payload = << 240 >>

SessionUnchanged == UNCHANGED vars

\* what a control client sends first: CREATE or DESTROY with a user name,
\* or something get_msg rejects
CtlMsgs ==
    [msg : {"CREATE", "DESTROY"}, user : CtlUsers]
        \cup {[msg |-> "BOB", user |-> None]}

CommSocket(user, id) == [socket_type |-> "COMMUNICATION", user_name |-> user,
                         id |-> id]

RemoveAt(list, i) == SubSeq(list, 1, i - 1) \o SubSeq(list, i + 1, Len(list))

HasUser(list, user) == \E i \in 1..Len(list) : list[i].user_name = user
HasId(list, id) == \E i \in 1..Len(list) : list[i].id = id
SockWithId(list, id) == list[CHOOSE i \in 1..Len(list) : list[i].id = id]
CountUser(list, user) ==
    Cardinality({i \in 1..Len(list) : list[i].user_name = user})

\* pl.PrivleapSocket(COMMUNICATION, user): binds <comm_dir>/<user>, which
\* fails when a node is already there; a socket that fails later (chown,
\* chmod, listen) may leave the node it bound behind
PrivleapSocket(node) ==
    IF node = "none"
       THEN {[ok |-> TRUE, node |-> "live"], [ok |-> FALSE, node |-> "none"],
             [ok |-> FALSE, node |-> "stale"]}
       ELSE {[ok |-> FALSE, node |-> node]}

\* handle_control_create_msg: the registry, the node and the reply it may
\* end with, for the user named and the id a new socket would get
create_unchecked(list, node, user, id) ==
    IF user \notin Users
       THEN {[list |-> list, node |-> node, reply |-> "CONTROL_ERROR"]}
       ELSE {IF r.ok THEN [list |-> Append(list, CommSocket(user, id)),
                           node |-> r.node, reply |-> "OK"]
                     ELSE [list |-> list, node |-> r.node,
                           reply |-> "CONTROL_ERROR"] : r \in PrivleapSocket(node)}

\* a CREATE that keeps one comm socket at a time: the new socket takes the
\* place of the comm sockets registered before
create_single_slot(list, node, user, id) ==
    IF HasUser(list, user)
       THEN {[list |-> list, node |-> node, reply |-> "EXISTS"]}
    ELSE IF user \notin Users
       THEN {[list |-> list, node |-> node, reply |-> "CONTROL_ERROR"]}
       ELSE {IF r.ok THEN [list |-> << list[1], CommSocket(user, id) >>,
                           node |-> r.node, reply |-> "OK"]
                     ELSE [list |-> list, node |-> r.node,
                           reply |-> "CONTROL_ERROR"] : r \in PrivleapSocket(node)}

\* a CREATE that registers the socket before it is bound
create_register_first(list, node, user, id) ==
    IF HasUser(list, user)
       THEN {[list |-> list, node |-> node, reply |-> "EXISTS"]}
    ELSE IF user \notin Users
       THEN {[list |-> list, node |-> node, reply |-> "CONTROL_ERROR"]}
       ELSE {[list |-> Append(list, CommSocket(user, id)), node |-> r.node,
              reply |-> IF r.ok THEN "OK" ELSE "CONTROL_ERROR"]
                 : r \in PrivleapSocket(node)}

handle_control_create_msg(list, node, user, id) ==
    IF HasUser(list, user)
       THEN {[list |-> list, node |-> node, reply |-> "EXISTS"]}
    ELSE IF user \notin Users
       THEN {[list |-> list, node |-> node, reply |-> "CONTROL_ERROR"]}
       ELSE {IF r.ok THEN [list |-> Append(list, CommSocket(user, id)),
                           node |-> r.node, reply |-> "OK"]
                     ELSE [list |-> list, node |-> r.node,
                           reply |-> "CONTROL_ERROR"] : r \in PrivleapSocket(node)}

\* the enumerate loop of handle_control_destroy_msg: the index of the first
\* socket of that user, 0 for None
RECURSIVE find_sock_idx(_, _, _)
find_sock_idx(list, user, i) ==
    IF i > Len(list) THEN 0
    ELSE IF list[i].user_name = user THEN i
    ELSE find_sock_idx(list, user, i + 1)

\* a search that compares nothing for the control socket's missing name
\* and so takes the first entry when the user has none
remove_idx_or_first(list, user) ==
    IF find_sock_idx(list, user, 1) = 0 THEN 1 ELSE find_sock_idx(list, user, 1)

remove_sock_idx(list, user) == find_sock_idx(list, user, 1)

\* a DESTROY that unlinks the node before it looks at the registry
destroy_unlink_first(list, node, user) ==
    LET idx == remove_sock_idx(list, user) IN
      IF idx = 0
         THEN {[list |-> list, node |-> "none", reply |-> "NOUSER",
                unlink |-> IF node = "none" THEN "missing" ELSE "removed"]}
      ELSE IF node # "none"
         THEN {[list |-> RemoveAt(list, idx), node |-> "none", reply |-> "OK",
                unlink |-> "removed"],
               [list |-> RemoveAt(list, idx), node |-> "stale", reply |-> "OK",
                unlink |-> "failed"]}
         ELSE {[list |-> RemoveAt(list, idx), node |-> "none", reply |-> "OK",
                unlink |-> "missing"]}

\* a DESTROY that keeps the entry when the node cannot be unlinked
destroy_keep_on_error(list, node, user) ==
    LET idx == remove_sock_idx(list, user) IN
      IF idx = 0
         THEN {[list |-> list, node |-> node, reply |-> "NOUSER",
                unlink |-> None]}
      ELSE IF node # "none"
         THEN {[list |-> RemoveAt(list, idx), node |-> "none", reply |-> "OK",
                unlink |-> "removed"],
               [list |-> list, node |-> node, reply |-> "CONTROL_ERROR",
                unlink |-> "failed"]}
         ELSE {[list |-> RemoveAt(list, idx), node |-> "none", reply |-> "OK",
                unlink |-> "missing"]}

\* a DESTROY that unlinks the node and forgets to deregister the socket
destroy_no_pop(list, node, user) ==
    LET idx == remove_sock_idx(list, user) IN
      IF idx = 0
         THEN {[list |-> list, node |-> node, reply |-> "NOUSER",
                unlink |-> None]}
      ELSE IF node # "none"
         THEN {[list |-> list, node |-> "none", reply |-> "OK",
                unlink |-> "removed"]}
         ELSE {[list |-> list, node |-> "none", reply |-> "OK",
                unlink |-> "missing"]}

\* handle_control_destroy_msg: unlink when the node exists (it may fail and
\* leave the node), pop the entry, reply OK; NOUSER when there is no entry
handle_control_destroy_msg(list, node, user) ==
    LET idx == remove_sock_idx(list, user) IN
      IF idx = 0
         THEN {[list |-> list, node |-> node, reply |-> "NOUSER",
                unlink |-> None]}
      ELSE IF node # "none"
         THEN {[list |-> RemoveAt(list, idx), node |-> "none", reply |-> "OK",
                unlink |-> "removed"],
               [list |-> RemoveAt(list, idx), node |-> "stale", reply |-> "OK",
                unlink |-> "failed"]}
         ELSE {[list |-> RemoveAt(list, idx), node |-> "none", reply |-> "OK",
                unlink |-> "missing"]}

(***************************************************************************)
(* The clients of the daemon and the world around the comm directory.      *)
(***************************************************************************)
CtlConnect(m) ==
    /\ mpc \notin {"exited", "crashed"}
    /\ ctlConns < MaxCtl
    /\ ctlConns' = ctlConns + 1
    /\ ctlQueue' = Append(ctlQueue, m)
    /\ UNCHANGED << socket_list, nodes, pending, mpc, readyList,
                    ctlConn, ctlOpen, lastReq, okCreated, workers, conns >>
    /\ SessionUnchanged
    /\ UNCHANGED startVars

\* a client connects to the comm socket of a user: the node is the one the
\* registered socket is bound to
CommConnect(i) ==
    /\ mpc \notin {"exited", "crashed"}
    /\ conns < MaxConn
    /\ socket_list[i].socket_type = "COMMUNICATION"
    /\ nodes[socket_list[i].user_name] = "live"
    /\ pending' = [pending EXCEPT ![socket_list[i].id] = @ + 1]
    /\ conns' = conns + 1
    /\ UNCHANGED << socket_list, nodes, ctlQueue, mpc, readyList,
                    ctlConn, ctlOpen, lastReq, okCreated, workers, ctlConns >>
    /\ SessionUnchanged
    /\ UNCHANGED startVars

\* someone else removes the node of a comm socket
ExternalUnlink(u) ==
    /\ nodes[u] # "none"
    /\ nodes' = [nodes EXCEPT ![u] = "none"]
    /\ UNCHANGED << socket_list, ctlQueue, pending, mpc, readyList, ctlConn,
                    ctlOpen, lastReq, okCreated, workers, conns, ctlConns >>
    /\ SessionUnchanged
    /\ UNCHANGED startVars

\* someone else puts a node where a comm socket would be bound
ExternalCreate(u) ==
    /\ nodes[u] = "none"
    /\ nodes' = [nodes EXCEPT ![u] = "stale"]
    /\ UNCHANGED << socket_list, ctlQueue, pending, mpc, readyList,
                    ctlConn, ctlOpen, lastReq, okCreated, workers, conns,
                    ctlConns >>
    /\ SessionUnchanged
    /\ UNCHANGED startVars

(***************************************************************************)
(* main_loop.                                                              *)
(***************************************************************************)
\* select.select on the backend sockets of socket_list: a listening socket
\* is readable while a connection waits on it
ReadableSock(sock) ==
    IF sock.socket_type = "CONTROL" THEN ctlQueue # << >>
    ELSE pending[sock.id] > 0

RECURSIVE ready_sockets(_, _)
ready_sockets(list, i) ==
    IF i > Len(list) THEN << >>
    ELSE IF ReadableSock(list[i]) THEN << list[i].id >> \o ready_sockets(list, i + 1)
    ELSE ready_sockets(list, i + 1)

\* after a socket was dispatched: the next one of the pass, or select again
NextMpc(rest) == IF rest = << >> THEN "select" ELSE "dispatch"

\* a supervisor that waits for the sessions it started before it selects
\* again
MainSelectAfterSessions ==
    /\ mpc = "select"
    /\ \A w \in 1..MaxThreads : workers[w].state # "session"
    /\ ready_sockets(socket_list, 1) # << >>
    /\ readyList' = ready_sockets(socket_list, 1)
    /\ mpc' = "dispatch"
    /\ UNCHANGED << socket_list, nodes, ctlQueue, pending, ctlConn,
                    ctlOpen, lastReq, okCreated, workers, conns, ctlConns >>
    /\ SessionUnchanged
    /\ UNCHANGED startVars

MainSelect ==
    /\ mpc = "select"
    /\ ready_sockets(socket_list, 1) # << >>
    /\ readyList' = ready_sockets(socket_list, 1)
    /\ mpc' = "dispatch"
    /\ UNCHANGED << socket_list, nodes, ctlQueue, pending, ctlConn,
                    ctlOpen, lastReq, okCreated, workers, conns, ctlConns >>
    /\ SessionUnchanged
    /\ UNCHANGED startVars

\* the ready socket is no longer in socket_list: sys.exit(1)
DispatchLost ==
    /\ mpc = "dispatch"
    /\ ~HasId(socket_list, Head(readyList))
    /\ mpc' = "exited"
    /\ UNCHANGED << socket_list, nodes, ctlQueue, pending, readyList,
                    ctlConn, ctlOpen, lastReq, okCreated, workers, conns,
                    ctlConns >>
    /\ SessionUnchanged
    /\ UNCHANGED startVars

\* handle_control_session, get_session: the connection is accepted, or the
\* accept raises and the handler returns
DispatchControl ==
    /\ mpc = "dispatch"
    /\ HasId(socket_list, Head(readyList))
    /\ SockWithId(socket_list, Head(readyList)).socket_type = "CONTROL"
    /\ ctlQueue # << >>
    /\ ctlQueue' = Tail(ctlQueue)
    /\ readyList' = Tail(readyList)
    /\ \/ /\ ctlConn' = Head(ctlQueue)
          /\ ctlOpen' = ctlOpen + 1
          /\ mpc' = "ctl"
       \/ /\ mpc' = NextMpc(Tail(readyList))
          /\ UNCHANGED << ctlConn, ctlOpen >>
    /\ UNCHANGED << socket_list, nodes, pending, lastReq, okCreated,
                    workers, conns, ctlConns >>
    /\ SessionUnchanged
    /\ UNCHANGED startVars

\* close_session in the finally of handle_control_session, and back to the
\* loop over the ready sockets
ControlDone ==
    /\ ctlConn' = NoConn
    /\ ctlOpen' = ctlOpen - 1
    /\ mpc' = NextMpc(readyList)

\* get_msg raises: the client sent no CREATE or DESTROY, or went away
ControlBad ==
    /\ mpc = "ctl"
    /\ ctlConn.msg \notin {"CREATE", "DESTROY"}
    /\ lastReq' = [type |-> ctlConn.msg, user |-> None, reply |-> None,
                   unlink |-> None, sent |-> FALSE]
    /\ ControlDone
    /\ UNCHANGED << socket_list, nodes, ctlQueue, pending, readyList,
                    okCreated, workers, conns, ctlConns >>
    /\ SessionUnchanged
    /\ UNCHANGED startVars

\* the id a new comm socket gets
NewId == Len(pending) + 1

\* the reply of a control handler goes through send_msg_safe: it reaches
\* the client, or the client has closed the connection and the failure is
\* logged; the handler returns either way
ControlReplySent == BOOLEAN

\* a CREATE that takes the new socket out of the registry again when the
\* client did not get the reply
ControlCreateRollback ==
    /\ mpc = "ctl"
    /\ ctlConn.msg = "CREATE"
    /\ LET u == ctlConn.user IN
       \E r \in handle_control_create_msg(socket_list, nodes[u], u, NewId),
          ok \in ControlReplySent :
         /\ socket_list' = IF ok THEN r.list ELSE socket_list
         /\ nodes' = [nodes EXCEPT ![u] = r.node]
         /\ pending' = IF Len(socket_list') > Len(socket_list)
                           THEN Append(pending, 0) ELSE pending
         /\ lastReq' = [type |-> "CREATE", user |-> u, reply |-> r.reply,
                        unlink |-> None, sent |-> ok]
         /\ okCreated' = [okCreated EXCEPT ![u] = @ \/ r.reply = "OK"]
    /\ ControlDone
    /\ UNCHANGED << ctlQueue, readyList, workers, conns, ctlConns >>
    /\ SessionUnchanged
    /\ UNCHANGED startVars

ControlCreate ==
    /\ mpc = "ctl"
    /\ ctlConn.msg = "CREATE"
    /\ LET u == ctlConn.user IN
       \E r \in handle_control_create_msg(socket_list, nodes[u], u, NewId),
          ok \in ControlReplySent :
         /\ socket_list' = r.list
         /\ nodes' = [nodes EXCEPT ![u] = r.node]
         /\ pending' = IF Len(r.list) > Len(socket_list) THEN Append(pending, 0)
                                                           ELSE pending
         /\ lastReq' = [type |-> "CREATE", user |-> u, reply |-> r.reply,
                        unlink |-> None, sent |-> ok]
         /\ okCreated' = [okCreated EXCEPT ![u] = @ \/ r.reply = "OK"]
    /\ ControlDone
    /\ UNCHANGED << ctlQueue, readyList, workers, conns, ctlConns >>
    /\ SessionUnchanged
    /\ UNCHANGED startVars

\* pwd.getpwall() raises: nothing in handle_control_create_msg,
\* handle_control_session or main_loop catches it; the session is closed
\* by the finally and the supervisor thread ends
ControlCreateRaises ==
    /\ mpc = "ctl"
    /\ ctlConn.msg = "CREATE"
    /\ ~HasUser(socket_list, ctlConn.user)
    /\ ctlConn' = NoConn
    /\ ctlOpen' = ctlOpen - 1
    /\ mpc' = "crashed"
    /\ lastReq' = [type |-> "CREATE", user |-> ctlConn.user, reply |-> None,
                   unlink |-> None, sent |-> FALSE]
    /\ UNCHANGED << socket_list, nodes, ctlQueue, pending, readyList,
                    okCreated, workers, conns, ctlConns >>
    /\ SessionUnchanged
    /\ UNCHANGED startVars

ControlDestroy ==
    /\ mpc = "ctl"
    /\ ctlConn.msg = "DESTROY"
    /\ LET u == ctlConn.user IN
       \E r \in handle_control_destroy_msg(socket_list, nodes[u], u),
          ok \in ControlReplySent :
         /\ socket_list' = r.list
         /\ nodes' = [nodes EXCEPT ![u] = r.node]
         /\ lastReq' = [type |-> "DESTROY", user |-> u, reply |-> r.reply,
                        unlink |-> r.unlink, sent |-> ok]
         /\ okCreated' = [okCreated EXCEPT ![u] = FALSE]
    /\ ControlDone
    /\ UNCHANGED << ctlQueue, pending, readyList, workers, conns, ctlConns >>
    /\ SessionUnchanged
    /\ UNCHANGED startVars

\* a ready comm socket: a Thread for handle_comm_session is started
DispatchComm ==
    /\ mpc = "dispatch"
    /\ HasId(socket_list, Head(readyList))
    /\ SockWithId(socket_list, Head(readyList)).socket_type # "CONTROL"
    /\ \E w \in 1..MaxThreads :
         /\ workers[w].state = "unborn"
         /\ \A v \in 1..(w - 1) : workers[v].state # "unborn"
         /\ workers' = [workers EXCEPT ![w] =
               [state |-> "accepting", sock |-> Head(readyList),
                user |-> SockWithId(socket_list, Head(readyList)).user_name]]
    /\ readyList' = Tail(readyList)
    /\ mpc' = NextMpc(Tail(readyList))
    /\ UNCHANGED << socket_list, nodes, ctlQueue, pending, ctlConn,
                    ctlOpen, lastReq, okCreated, conns, ctlConns >>
    /\ SessionUnchanged
    /\ UNCHANGED startVars

(***************************************************************************)
(* A worker thread: handle_comm_session on the socket it was started for.  *)
(***************************************************************************)
\* a worker that takes its socket out of the registry when it is done
WorkerFinishDeregisters(w) ==
    /\ workers[w].state = "session"
    /\ workers' = [workers EXCEPT ![w].state = "done"]
    /\ socket_list' = IF HasId(socket_list, workers[w].sock)
                         THEN RemoveAt(socket_list,
                                 CHOOSE i \in 1..Len(socket_list) :
                                    socket_list[i].id = workers[w].sock)
                         ELSE socket_list
    /\ UNCHANGED << nodes, ctlQueue, pending, mpc, readyList,
                    ctlConn, ctlOpen, lastReq, okCreated, conns, ctlConns >>
    /\ SessionUnchanged
    /\ UNCHANGED startVars

\* get_session: accept blocks until a connection waits on the socket; the
\* worker gets the session, or the accept raises and the thread ends
WorkerAccept(w) ==
    /\ workers[w].state = "accepting"
    /\ pending[workers[w].sock] > 0
    /\ pending' = [pending EXCEPT ![workers[w].sock] = @ - 1]
    /\ \E st \in {"session", "done"} :
          workers' = [workers EXCEPT ![w].state = st]
    /\ UNCHANGED << socket_list, nodes, ctlQueue, mpc, readyList,
                    ctlConn, ctlOpen, lastReq, okCreated, conns, ctlConns >>
    /\ SessionUnchanged
    /\ UNCHANGED startVars

\* the session runs to close_session, as in the first part
WorkerFinish(w) ==
    /\ workers[w].state = "session"
    /\ workers' = [workers EXCEPT ![w].state = "done"]
    /\ UNCHANGED << socket_list, nodes, ctlQueue, pending, mpc,
                    readyList, ctlConn, ctlOpen, lastReq, okCreated, conns,
                    ctlConns >>
    /\ SessionUnchanged
    /\ UNCHANGED startVars

InitD ==
    /\ DaemonInit
    /\ StartedUp
    /\ sockUser = "privleaptest"
    /\ pc = "accept"
    /\ sessUser = None
    /\ sessOpen = "none"
    /\ closes = 0
    /\ inbox = NoMsg
    /\ clientGone = FALSE
    /\ frames = << >>
    /\ desired = NoAction
    /\ authUser = None
    /\ granted = None
    /\ child = NoChild
    /\ returncode = << >>
    /\ pipe = [s \in Streams |-> << >>]
    /\ rbuf = [s \in Streams |-> << >>]
    /\ wclosed = [s \in Streams |-> FALSE]
    /\ rclosed = [s \in Streams |-> FALSE]
    /\ wrote = [s \in Streams |-> << >>]
    /\ consumed = [s \in Streams |-> 0]
    /\ done = [s \in Streams |-> FALSE]
    /\ ready = {}
    /\ unwinding = FALSE
    /\ script = << >>

NextD ==
    \/ \E m \in CtlMsgs : CtlConnect(m)
    \/ \E i \in 1..Len(socket_list) : CommConnect(i)
    \/ \E u \in Users : ExternalUnlink(u)
    \/ \E u \in Users : ExternalCreate(u)
    \/ MainSelect
    \/ DispatchLost
    \/ DispatchControl
    \/ ControlBad
    \/ ControlCreate
    \/ ControlCreateRaises
    \/ ControlDestroy
    \/ DispatchComm
    \/ \E w \in 1..MaxThreads : WorkerAccept(w)
    \/ \E w \in 1..MaxThreads : WorkerFinish(w)

SpecD == InitD /\ [][NextD]_allVars

TypeOKD ==
    /\ mpc \in {"select", "dispatch", "ctl", "exited", "crashed"}
    /\ ctlOpen \in 0..1
    /\ \A u \in CtlUsers : nodes[u] \in {"none", "live", "stale"}
    /\ \A i \in 1..Len(socket_list) :
          socket_list[i].socket_type = "CONTROL" \/ socket_list[i].id \in 1..Len(pending)


(***************************************************************************)
(* The registry and the supervisor: what the control requests and the      *)
(* accept loop keep true.                                                  *)
(***************************************************************************)
\* the step in which the supervisor finishes the control session it holds
ControlStep == mpc = "ctl" /\ mpc' # "ctl"
CreateStep(u) == ControlStep /\ ctlConn.msg = "CREATE" /\ ctlConn.user = u
DestroyStep(u) == ControlStep /\ ctlConn.msg = "DESTROY" /\ ctlConn.user = u
\* a step of the world outside the daemon: no thread of the daemon moves
OutsideStep == UNCHANGED << socket_list, mpc, readyList, ctlConn, ctlOpen,
                            lastReq, okCreated, workers >>
Started == {w \in 1..MaxThreads : workers[w].state # "unborn"}
\* the control request handled last, and how it ended
Handled(type, u, reply, unlink) ==
    /\ lastReq.type = type
    /\ lastReq.user = u
    /\ lastReq.reply = reply
    /\ lastReq.unlink = unlink

\* C11: a CREATE for a user whose earlier CREATE was answered OK, with no
\* DESTROY for that user in between, is answered EXISTS and changes neither
\* the registry nor the node; the registry then holds exactly one comm
\* endpoint of that user
C11_SecondCreateExists ==
    [][\A u \in Users :
          (CreateStep(u) /\ okCreated[u])
             => /\ lastReq'.reply = "EXISTS"
                /\ socket_list' = socket_list
                /\ nodes' = nodes
                /\ CountUser(socket_list', u) = 1]_allVars

C11_Witness ==
    \E u \in Users :
       /\ Handled("CREATE", u, "EXISTS", None)
       /\ okCreated[u]
       /\ CountUser(socket_list, u) = 1

\* C12: in every reachable state the registry holds at most one comm
\* endpoint per user name
C12_OneEndpointPerUser ==
    \A u \in CtlUsers : CountUser(socket_list, u) <= 1

C12_Witness ==
    /\ Len(socket_list) = 1 + Cardinality(Users)
    /\ \A u \in Users : CountUser(socket_list, u) = 1

\* C13: a DESTROY for a user with no endpoint in the registry is answered
\* NOUSER and changes neither the registry nor any node
C13_DestroyWithoutEndpoint ==
    [][\A u \in CtlUsers :
          (DestroyStep(u) /\ ~HasUser(socket_list, u))
             => /\ lastReq'.reply = "NOUSER"
                /\ socket_list' = socket_list
                /\ nodes' = nodes]_allVars

C13_Witness ==
    \E u \in Users :
       /\ Handled("DESTROY", u, "NOUSER", None)
       /\ nodes[u] # "none"

\* C14: a DESTROY for a user with an endpoint in the registry removes that
\* entry, and only that entry, and is answered OK, whether the node was
\* removed, was already missing, or could not be unlinked
C14_DestroyAlwaysDeregisters ==
    [][\A u \in CtlUsers :
          (DestroyStep(u) /\ HasUser(socket_list, u))
             => /\ lastReq'.reply = "OK"
                /\ lastReq'.unlink \in {"removed", "missing", "failed"}
                /\ ~HasUser(socket_list', u)
                /\ socket_list' = RemoveAt(socket_list,
                                           find_sock_idx(socket_list, u, 1))]_allVars

C14_Witness ==
    \E u \in Users :
       /\ Handled("DESTROY", u, "OK", "failed")
       /\ ~HasUser(socket_list, u)
       /\ nodes[u] # "none"

\* C15: a CREATE the handler answers without registering an endpoint for a
\* user that had none (the user does not exist, or the socket could not be
\* created or bound) is answered CONTROL_ERROR, and a CREATE answered
\* CONTROL_ERROR leaves the registry as it was
C15_FailedCreateChangesNothing ==
    [][\A u \in CtlUsers :
          (CreateStep(u) /\ mpc' # "crashed")
             => /\ (~HasUser(socket_list, u) /\ ~HasUser(socket_list', u))
                      => lastReq'.reply = "CONTROL_ERROR"
                /\ u \notin Users => lastReq'.reply = "CONTROL_ERROR"
                /\ lastReq'.reply = "CONTROL_ERROR"
                      => socket_list' = socket_list]_allVars

C15_Witness ==
    \E u \in Users :
       /\ Handled("CREATE", u, "CONTROL_ERROR", None)
       /\ ~HasUser(socket_list, u)
       /\ nodes[u] = "stale"

\* C16: the control endpoint opened at startup is in the registry in every
\* reachable state, once and unchanged
C16_ControlEndpointStays ==
    Cardinality({i \in 1..Len(socket_list) : socket_list[i] = ControlSocket}) = 1

C16_Witness ==
    /\ lastReq.type = "DESTROY"
    /\ lastReq.user = "nonexistent"
    /\ socket_list = << ControlSocket >>

\* C17, as the specification states it: every comm endpoint in the
\* registry has its node in the filesystem
C17_RegisteredNodeExists ==
    \A u \in Users : HasUser(socket_list, u) => nodes[u] # "none"

\* C17: no step of the daemon leaves a registered endpoint without its
\* node: an endpoint is registered with its node in place, and the node of
\* an endpoint that stays registered goes missing only by a removal from
\* outside the daemon
C17_NodeMissingOnlyFromOutside ==
    [][\A u \in Users :
          ((HasUser(socket_list', u) /\ nodes'[u] = "none")
              /\ ~(HasUser(socket_list, u) /\ nodes[u] = "none"))
             => OutsideStep]_allVars

C17_Witness ==
    \E u \in Users :
       /\ HasUser(socket_list, u)
       /\ nodes[u] = "none"
       /\ okCreated[u]

\* C18: the registry changes only in a step of the supervisor inside the
\* one control session it holds, in which no worker thread moves, and
\* there is never more than one control session open
C18_SingleWriter ==
    [][/\ socket_list' # socket_list
            => (ControlStep /\ ctlOpen = 1 /\ workers' = workers)
       /\ ctlOpen' <= 1]_allVars

C18_Witness ==
    /\ ctlOpen = 1
    /\ ctlConn.msg = "DESTROY"
    /\ \E w \in 1..MaxThreads : workers[w].state = "session"

\* C19, as the specification states it: the supervisor has started no more
\* worker threads than comm connections have come in
C19_OneThreadPerConnection ==
    Cardinality(Started) <= conns

\* C20, as the specification states it: no error in a session ends the
\* supervisor
C20_DaemonSurvivesSessionErrors ==
    mpc # "crashed"

(***************************************************************************)
(* Sessions that go wrong.                                                 *)
(***************************************************************************)
\* the comm session got past get_signal_msg with nothing it accepts: the
\* client went away, sent an unknown message type, or sent no SIGNAL
FirstRejected ==
    /\ sessOpen # "none"
    /\ pc \notin {"accept", "get_signal"}
    /\ get_signal_msg(inbox) = NoMsg

\* C21: a comm session whose first message cannot be received or parsed, or
\* is no SIGNAL, gets no reply frame, spawns no child, and goes straight to
\* close_session
C21_NoReplyToRejectedFirstMessage ==
    FirstRejected
       => /\ frames = << >>
          /\ ~Spawned
          /\ desired = NoAction
          /\ pc \in {"close", "done"}
          /\ pc = "done" => (sessOpen = "closed" /\ closes = 1)

C21_Witness ==
    /\ FirstRejected
    /\ inbox # NoMsg
    /\ inbox.type = "BOB"
    /\ pc = "done"
    /\ sessOpen = "closed"

\* C23: when the spawn fails after the user was authorized, TRIGGER_ERROR is
\* the only frame of the session, there is no child, and the session goes
\* to close_session
C23_SpawnFailureSendsOnlyTriggerError ==
    Sent("TRIGGER_ERROR")
       => /\ Len(frames) = 1
          /\ granted = "True"
          /\ ~Spawned
          /\ pc \in {"close", "done"}
          /\ pc = "done" => (sessOpen = "closed" /\ closes = 1)

C23_Witness ==
    /\ Delivered("TRIGGER_ERROR")
    /\ pc = "done"
    /\ sessOpen = "closed"

\* C21, on the control endpoint: a control session whose first message
\* get_msg rejects gets no reply, changes neither the registry nor a node,
\* and is closed
C21_ControlNoReplyToRejected ==
    [][(ControlStep /\ ctlConn.msg \notin {"CREATE", "DESTROY"})
          => /\ lastReq'.reply = None
             /\ ~lastReq'.sent
             /\ socket_list' = socket_list
             /\ nodes' = nodes
             /\ ctlOpen' = 0
             /\ mpc' \in {"select", "dispatch"}]_allVars

\* C22: a control request whose reply could not be sent has the registry
\* effect of its reply: OK to CREATE appends the user's endpoint, OK to
\* DESTROY removes it, EXISTS, NOUSER and CONTROL_ERROR change nothing; the
\* session is closed and the supervisor goes on with the loop
C22_FailedReplyKeepsEffect ==
    [][\A u \in CtlUsers :
          ((CreateStep(u) \/ DestroyStep(u))
              /\ lastReq'.reply # None /\ ~lastReq'.sent)
             => /\ (CreateStep(u) /\ lastReq'.reply = "OK")
                   => socket_list' = Append(socket_list, CommSocket(u, NewId))
                /\ (DestroyStep(u) /\ lastReq'.reply = "OK")
                   => socket_list' = RemoveAt(socket_list,
                                              find_sock_idx(socket_list, u, 1))
                /\ lastReq'.reply \in {"EXISTS", "NOUSER", "CONTROL_ERROR"}
                   => socket_list' = socket_list
                /\ ctlOpen' = 0
                /\ mpc' \in {"select", "dispatch"}]_allVars

C22_Witness ==
    \E u \in Users :
       /\ Handled("CREATE", u, "OK", None)
       /\ ~lastReq.sent
       /\ HasUser(socket_list, u)
       /\ mpc = "select"

\* C28, as the specification states it: the supervisor never takes the
\* exit of 'privleapd lost track of a socket!'
C28_NeverLosesTrack ==
    mpc # "exited"

\* C29, as the specification states it: a worker accepts a session on the
\* endpoint of a user only while that user's last CREATE answered OK has
\* not been followed by a DESTROY
C29_NoSessionAfterDestroy ==
    [][\A w \in 1..MaxThreads :
          (workers[w].state = "accepting" /\ workers'[w].state = "session")
             => okCreated[workers[w].user]]_allVars

(***************************************************************************)
(* main(): the startup functions, each a step; sys.exit ends the process.  *)
(***************************************************************************)
DaemonUntouched == UNCHANGED << nodes, ctlQueue, pending, mpc, readyList,
                                ctlConn, ctlOpen, lastReq, okCreated, workers,
                                conns, ctlConns >>

\* the next call of main is f; it is recorded as called
Calls(f) ==
    /\ spc \in 1..Len(main)
    /\ main[spc] = f
    /\ steps' = Append(steps, f)

Return == spc' = spc + 1 /\ UNCHANGED exit_status
\* a failure that is logged and after which main goes on
SysExitLogsOnly(n) == spc' = spc + 1 /\ UNCHANGED exit_status

SysExit(n) == spc' = 0 /\ exit_status' = << n >>

ensure_running_as_root ==
    /\ Calls("ensure_running_as_root")
    /\ IF euid # 0 THEN SysExit(1) ELSE Return
    /\ UNCHANGED << euid, state_dir, pid_file, config_dir, loaded,
                    socket_list >>
    /\ DaemonUntouched
    /\ SessionUnchanged

\* os.kill(old_pid, 0): returns when the process exists (PID 0 addresses
\* the caller's own process group), raises OSError when it does not, and
\* OverflowError when the number does not fit a PID
os_kill(pid) ==
    IF pid = "0" THEN "returns"
    ELSE IF pid = "2147483648" THEN "OverflowError"
    ELSE IF pid \in LivePids THEN "returns"
    ELSE "OSError"

\* verify_not_running_twice: TRUE when it returns, FALSE when it exits
pid_check_passes(content) ==
    \/ content = None                    \* no PID file
    \/ content \notin Decimal            \* the regular expression does not match
    \/ os_kill(content) = "OSError"      \* no such process

verify_not_running_twice ==
    /\ Calls("verify_not_running_twice")
    /\ IF pid_check_passes(pid_file) THEN Return ELSE SysExit(1)
    /\ UNCHANGED << euid, state_dir, pid_file, config_dir, loaded,
                    socket_list >>
    /\ DaemonUntouched
    /\ SessionUnchanged

\* cleanup_old_state_dir: rmtree of the state directory when it exists; a
\* failing rmtree is fatal
cleanup_old_state_dir ==
    /\ Calls("cleanup_old_state_dir")
    /\ \/ /\ state_dir' = "absent"
          /\ pid_file' = None
          /\ Return
       \/ /\ state_dir # "absent"
          /\ UNCHANGED << state_dir, pid_file >>
          /\ SysExit(1)
    /\ UNCHANGED << euid, config_dir, loaded, socket_list >>
    /\ DaemonUntouched
    /\ SessionUnchanged

\* pl.PrivleapCommon.parse_config_file(text): the actions of one file, in
\* the order of their sections; it raises for a file that does not parse
parse_config_file(entry) ==
    [raises |-> entry.kind = "malformed", action_arr |-> entry.actions]

\* the loop of parse_config_files over the directory, from entry i on,
\* with the action list built so far: the list, or failure at the first
\* file that does not parse
RECURSIVE parse_from(_, _, _)
parse_from(dir, i, list) ==
    IF i > Len(dir) THEN [ok |-> TRUE, action_list |-> list]
    ELSE IF dir[i].kind = "skipped" THEN parse_from(dir, i + 1, list)
    ELSE IF parse_config_file(dir[i]).raises
       THEN [ok |-> FALSE, action_list |-> list]
    ELSE parse_from(dir, i + 1, list \o parse_config_file(dir[i]).action_arr)

parse_config_files ==
    /\ Calls("parse_config_files")
    /\ LET r == parse_from(config_dir, 1, loaded) IN
         /\ loaded' = r.action_list
         /\ IF r.ok THEN Return ELSE SysExit(1)
    /\ UNCHANGED << euid, state_dir, pid_file, config_dir, socket_list >>
    /\ DaemonUntouched
    /\ SessionUnchanged

\* populate_state_dir: the state directory must not exist; it is made,
\* with the comm directory, and the PID file is written; a failing mkdir
\* is fatal
populate_state_dir ==
    /\ Calls("populate_state_dir")
    /\ \/ /\ state_dir = "absent"
          /\ state_dir' = "new"
          /\ pid_file' = OwnPid
          /\ Return
       \/ /\ UNCHANGED << state_dir, pid_file >>
          /\ SysExit(1)
    /\ UNCHANGED << euid, config_dir, loaded, socket_list >>
    /\ DaemonUntouched
    /\ SessionUnchanged

\* open_control_socket: the control socket is made and registered, or the
\* constructor raises, which is fatal
open_control_socket ==
    /\ Calls("open_control_socket")
    /\ \/ /\ socket_list' = Append(socket_list, ControlSocket)
          /\ Return
       \/ /\ UNCHANGED socket_list
          /\ SysExit(1)
    /\ UNCHANGED << euid, state_dir, pid_file, config_dir, loaded >>
    /\ DaemonUntouched
    /\ SessionUnchanged

\* the host main() starts on
InitS ==
    /\ spc = 1
    /\ exit_status = << >>
    /\ euid \in {0, 1000}
    /\ state_dir \in {"absent", "old"}
    /\ pid_file \in PidFiles \cup {None}
    /\ pid_file # None => state_dir = "old"
    /\ config_dir \in ConfigDirs
    /\ loaded = << >>
    /\ steps = << >>
    /\ socket_list = << >>
    /\ nodes = [u \in CtlUsers |-> "none"]
    /\ ctlQueue = << >>
    /\ pending = << >>
    /\ mpc = "select"
    /\ readyList = << >>
    /\ ctlConn = NoConn
    /\ ctlOpen = 0
    /\ lastReq = NoReq
    /\ okCreated = [u \in CtlUsers |-> FALSE]
    /\ workers = [w \in 1..MaxThreads |-> NoWorker]
    /\ conns = 0
    /\ ctlConns = 0
    /\ sockUser = "privleaptest"
    /\ pc = "accept"
    /\ sessUser = None
    /\ sessOpen = "none"
    /\ closes = 0
    /\ inbox = NoMsg
    /\ clientGone = FALSE
    /\ frames = << >>
    /\ desired = NoAction
    /\ authUser = None
    /\ granted = None
    /\ child = NoChild
    /\ returncode = << >>
    /\ pipe = [s \in Streams |-> << >>]
    /\ rbuf = [s \in Streams |-> << >>]
    /\ wclosed = [s \in Streams |-> FALSE]
    /\ rclosed = [s \in Streams |-> FALSE]
    /\ wrote = [s \in Streams |-> << >>]
    /\ consumed = [s \in Streams |-> 0]
    /\ done = [s \in Streams |-> FALSE]
    /\ ready = {}
    /\ unwinding = FALSE
    /\ script = << >>

NextS ==
    \/ ensure_running_as_root
    \/ verify_not_running_twice
    \/ cleanup_old_state_dir
    \/ parse_config_files
    \/ populate_state_dir
    \/ open_control_socket

SpecS == InitS /\ [][NextS]_allVars

TypeOKS ==
    /\ spc \in 0..Len(main)
    /\ exit_status \in {<< >>, << 1 >>}
    /\ spc = 0 <=> exit_status # << >>
    /\ state_dir \in {"absent", "old", "new"}
    /\ Len(steps) <= Len(main)

\* main_loop has been entered
InMainLoop == spc = Len(main)
\* the users of the persistent-users sections of the configuration
PersistentUsers ==
    UNION {config_dir[i].users : i \in {j \in 1..Len(config_dir) :
                                            config_dir[j].kind = "conf"}}
\* the process has exited with status 1 from the function f
ExitedFrom(f) ==
    /\ spc = 0
    /\ exit_status = << 1 >>
    /\ steps # << >>
    /\ steps[Len(steps)] = f

\* C24, as the specification states it: with the PID of a live process in
\* the PID file the check exits with status 1, before anything but the
\* root check has run and leaving state directory, PID file and registry
\* as they were; with no PID file, with one that holds no decimal number,
\* or one that names no live process, the check returns and startup goes on
C24_PidFileGuard ==
    [][(spc \in 1..Len(main) /\ main[spc] = "verify_not_running_twice")
          => IF pid_file \in Decimal /\ pid_file \in LivePids
                THEN /\ spc' = 0
                     /\ exit_status' = << 1 >>
                     /\ steps = << "ensure_running_as_root" >>
                     /\ UNCHANGED << state_dir, pid_file, socket_list >>
                     /\ socket_list = << >>
                ELSE /\ spc' = spc + 1
                     /\ exit_status' = << >>]_allVars

\* C25: with an effective UID other than 0 the only step main takes is the
\* root check, which exits with status 1: PID file, state directory, action
\* list and registry are left as they were
C25_NonRootExitsFirst ==
    [][euid # 0
          => /\ steps = << >>
             /\ steps' = << "ensure_running_as_root" >>
             /\ spc' = 0
             /\ exit_status' = << 1 >>
             /\ UNCHANGED << state_dir, pid_file, config_dir, loaded,
                             socket_list >>]_allVars

C25_Witness ==
    /\ euid # 0
    /\ ExitedFrom("ensure_running_as_root")
    /\ state_dir = "old"
    /\ pid_file = "4242"
    /\ config_dir # << >>

\* C26, as the specification states it: when main_loop is entered the
\* registry holds a comm endpoint for every persistent user of the
\* configuration
C26_PersistentEndpointsAtStartup ==
    InMainLoop => \A u \in PersistentUsers : HasUser(socket_list, u)

\* C27, as the specification states it: when main_loop is entered no two
\* actions of the action list have the same name
C27_NoDuplicateActionNames ==
    InMainLoop
       => \A i, j \in 1..Len(loaded) : i # j => loaded[i] # loaded[j]

(***************************************************************************)
(* A session whose child runs a given command: it writes its output byte   *)
(* by byte to the streams its script names, in that order, blocks while    *)
(* the pipe it writes to is full, and when the script is done closes both  *)
(* streams and exits with status 0.                                        *)
(***************************************************************************)
\* the commands considered: every order of at most MaxOut + 1 bytes
Scripts == UNION {[1..n -> Streams] : n \in 0..(MaxOut + 1)}

ScriptWrite ==
    /\ child.state = "running"
    /\ script # << >>
    /\ LET s == Head(script) IN
         /\ ~wclosed[s]
         /\ ~rclosed[s]
         /\ Len(pipe[s]) < PipeCap
         /\ pipe' = [pipe EXCEPT ![s] = Append(@, Byte(s, Len(wrote[s]) + 1))]
         /\ wrote' = [wrote EXCEPT ![s] = Append(@, Byte(s, Len(wrote[s]) + 1))]
    /\ script' = Tail(script)
    /\ UNCHANGED << startVars, daemonVars, sockUser, pc, sessVars, clientVars,
                    frames, authVars, procVars, rbuf, wclosed, rclosed,
                    consumed, loopVars >>

\* a write to a pipe whose read end the worker has closed
ScriptSigpipe ==
    /\ child.state = "running"
    /\ script # << >>
    /\ rclosed[Head(script)]
    /\ ChildEnds(-SIGPIPE, "sigpipe")

ScriptEnd ==
    /\ child.state = "running"
    /\ script = << >>
    /\ ChildEnds(0, "self")

\* the steps of the worker thread
WorkerNext ==
    \/ Accept
    \/ GetSignal
    \/ LookupDesiredAction
    \/ Authenticate
    \/ RunAction
    \/ SendTrigger
    \/ Select
    \/ \E s \in Streams : ReadFill(s)
    \/ \E s \in Streams : ReadReturn(s)
    \/ WaitChild
    \/ Finally
    \/ FinallyWait
    \/ SendExitcode
    \/ CloseSession

\* the steps of the child process
ScriptedChild ==
    \/ ScriptWrite
    \/ ScriptSigpipe
    \/ ScriptEnd
    \/ ChildKilled

InitL ==
    /\ sockUser \in Users
    /\ pc = "accept"
    /\ sessUser = None
    /\ sessOpen = "none"
    /\ closes = 0
    /\ inbox = NoMsg
    /\ clientGone = FALSE
    /\ frames = << >>
    /\ desired = NoAction
    /\ authUser = None
    /\ granted = None
    /\ child = NoChild
    /\ returncode = << >>
    /\ pipe = [s \in Streams |-> << >>]
    /\ rbuf = [s \in Streams |-> << >>]
    /\ wclosed = [s \in Streams |-> FALSE]
    /\ rclosed = [s \in Streams |-> FALSE]
    /\ wrote = [s \in Streams |-> << >>]
    /\ consumed = [s \in Streams |-> 0]
    /\ done = [s \in Streams |-> FALSE]
    /\ ready = {}
    /\ unwinding = FALSE
    /\ script \in Scripts
    /\ DaemonInit
    /\ StartedUp

NextL ==
    \/ \E m \in ClientMsgs : ClientSend(m)
    \/ ClientDisconnect
    \/ WorkerNext
    \/ ScriptedChild

\* the worker thread and the child process are scheduled: each takes a step
\* it can take; the client need not do anything
SpecL == InitL /\ [][NextL]_allVars /\ WF_allVars(WorkerNext)
               /\ WF_allVars(ScriptedChild)

\* C30, as the specification states it: once the child is spawned, and
\* unless the client disconnects, the worker gets to the end of the
\* session with RESULT_EXITCODE delivered and the session closed
C30_WorkerAlwaysFinishes ==
    Spawned ~> (clientGone \/ (/\ pc = "done"
                               /\ Delivered("RESULT_EXITCODE")
                               /\ sessOpen = "closed"))

(***************************************************************************)
(* The reads of the streaming loop.                                        *)
(***************************************************************************)
Other(s) == IF s = "out" THEN "err" ELSE "out"

\* the worker is inside stdout.read(1024) or stderr.read(1024) with some
\* bytes in hand, and the read does not return: it has fewer bytes than it
\* asked for, the pipe is empty and its write end is still open
ReadWaits(s) ==
    /\ pc = "read_" \o s
    /\ rbuf[s] # << >>
    /\ Len(rbuf[s]) < ReadSize
    /\ pipe[s] = << >>
    /\ ~wclosed[s]

\* C31, as the specification states it: a read from a stream reported
\* ready returns what is available without waiting for more on that
\* stream, so the worker is never waiting inside a read on one stream
\* while output of the child is pending on the other stream
C31_ReadDoesNotHoldBackOtherStream ==
    \A s \in Streams : ~(ReadWaits(s) /\ pipe[Other(s)] # << >>)

(***************************************************************************)
(* Sessions: every accepted session is closed, once.                       *)
(***************************************************************************)
\* the handler has returned from a session it had accepted
Returned == pc = "done" /\ sessUser # None

\* C32: a comm session is closed exactly once by the time the handler
\* returns, on every exit path (no or wrong first message, unknown action,
\* denial, spawn failure, failed send, normal completion): close_session
\* is never called twice, is called only on an accepted session, and a
\* handler that has returned from an accepted session has called it
C32_SessionClosedExactlyOnce ==
    /\ closes = (IF sessOpen = "closed" THEN 1 ELSE 0)
    /\ sessOpen # "none" => sessUser # None
    /\ Returned => sessOpen = "closed" /\ closes = 1

\* the handler returned because a result frame could not be sent
C32_Witness ==
    /\ Returned
    /\ ResultSendFailed
    /\ closes = 1

\* C32 for the control handler: the supervisor holds an open control
\* session only while it is inside handle_control_session, and never more
\* than one; every way out of the handler, an exception that ends the
\* supervisor included, closes it
C32_ControlSessionClosed ==
    /\ ctlOpen \in 0..1
    /\ ctlOpen = 1 <=> mpc = "ctl"

(***************************************************************************)
(* Failed sends.                                                           *)
(***************************************************************************)
\* C33: after a send on the session has failed no further frame is sent
\* on it: a frame that was not delivered is the last send_msg_safe call
\* of the session, so a failed TRIGGER is followed by no RESULT_* frame
\* and a failed RESULT_STDOUT or RESULT_STDERR by no later result frame
\* and no RESULT_EXITCODE
C33_NoFrameAfterFailedSend ==
    \A i \in 1..Len(frames) : ~frames[i].ok => i = Len(frames)

\* a result frame could not be sent while the child had written more than
\* that frame took, and the handler has returned
C33_Witness ==
    /\ pc = "done"
    /\ ResultSendFailed
    /\ \E s \in Streams : Len(wrote[s]) > ReadSize

(***************************************************************************)
(* The supervisor and the sessions it started.                             *)
(***************************************************************************)
\* the steps of the supervisor thread in main_loop
SupervisorNext ==
    \/ MainSelect
    \/ DispatchLost
    \/ DispatchControl
    \/ ControlBad
    \/ ControlCreate
    \/ ControlCreateRaises
    \/ ControlDestroy
    \/ DispatchComm

\* a comm client has connected, a worker holds its session, and the
\* session has not ended: the client sends nothing, or its action runs
Stalled == \E w \in 1..MaxThreads : workers[w].state = "session"

\* there is something for the supervisor to do: a connection waits on a
\* registered socket, or the supervisor is in the middle of a pass
WorkWaiting ==
    \/ mpc = "select" /\ ready_sockets(socket_list, 1) # << >>
    \/ mpc \in {"dispatch", "ctl"}

\* the model has a thread left for the supervisor to start
ThreadLeft == \E w \in 1..MaxThreads : workers[w].state = "unborn"

StepOf(f) == CHOOSE i \in 1..Len(main) : main[i] = f

\* C35: main calls its steps in the order root check, single-instance
\* check, removal of the old state directory, configuration loading,
\* creation of the state directory with the PID file, opening of the
\* control endpoint; main_loop is entered only when each of them has run
\* and succeeded; a step that fails exits with status 1 and none of the
\* later steps has run or left its effect
C35_StartupSequence ==
    /\ steps = SubSeq(main, 1, Len(steps))
    /\ InMainLoop =>
          /\ steps = SubSeq(main, 1, Len(main) - 1)
          /\ exit_status = << >>
          /\ euid = 0
          /\ \A i \in 1..Len(config_dir) : config_dir[i].kind # "malformed"
          /\ loaded = parse_from(config_dir, 1, << >>).action_list
          /\ state_dir = "new"
          /\ pid_file = OwnPid
          /\ socket_list = << ControlSocket >>
    /\ exit_status # << >> =>
          /\ exit_status = << 1 >>
          /\ spc = 0
          /\ steps # << >>
          /\ socket_list = << >>
          /\ Len(steps) < StepOf("populate_state_dir")
                => state_dir # "new" /\ pid_file # OwnPid
          /\ Len(steps) < StepOf("parse_config_files") => loaded = << >>

\* main_loop is entered on a host that had an old state directory with a
\* PID file and has configuration files to load
C35_Witness ==
    /\ InMainLoop
    /\ Len(config_dir) = MaxFiles
    /\ loaded # << >>
    /\ socket_list = << ControlSocket >>

(***************************************************************************)
(* What a control request leaves alone.                                    *)
(***************************************************************************)
\* the registry without the entries of user u, in registry order
Others(list, u) == SelectSeq(list, LAMBDA sock : sock.user_name # u)

ResultFrames ==
    {i \in 1..Len(frames) : frames[i].name \in {"RESULT_STDOUT", "RESULT_STDERR"}}

\* the stream a result frame belongs to
StreamOf(name) == IF name = "RESULT_STDOUT" THEN "out" ELSE "err"

\* the read the worker is in returns with this step
ReadReturns(s) == pc = "read_" \o s /\ pc' # pc

\* C37: every RESULT_STDOUT and RESULT_STDERR frame carries at least one
\* byte and at most the bytes of one read request (1024), all of them
\* bytes the child wrote to that stream; a read that returns nothing marks
\* the stream done and sends no frame
C37_ResultFrameSize ==
    [][/\ \A i \in ResultFrames' :
             /\ Len(frames'[i].payload) \in 1..ReadSize
             /\ \A k \in 1..Len(frames'[i].payload) :
                   \E n \in 1..Len(wrote'[StreamOf(frames'[i].name)]) :
                      frames'[i].payload[k] = wrote'[StreamOf(frames'[i].name)][n]
       /\ \A s \in Streams :
             (ReadReturns(s) /\ rbuf[s] = << >>)
                => /\ done'[s]
                   /\ frames' = frames]_allVars

\* the child's output went out in a full frame and a shorter one, and the
\* empty reads at the end of both streams sent nothing
C37_Witness ==
    /\ done["out"] /\ done["err"]
    /\ \E i, j \in ResultFrames :
          /\ Len(frames[i].payload) = ReadSize
          /\ Len(frames[j].payload) < ReadSize
    /\ Cardinality(ResultFrames) = 2

=============================================================================
